---- MODULE Spec2Model ----
(***************************************************************************)
(* A model of src/src/lib.rs: the pattern compiler Regexp::new and the     *)
(* recursive backtracking matcher Regexp::matches / Regexp::start_match.   *)
(*                                                                         *)
(* Both functions are recursive.  Each is modelled as a call stack of      *)
(* frames; one action is one arm of the function's loop, up to the next    *)
(* call or return.  Indices (i, j, consumed) are the source's 0-based      *)
(* indices; a sequence s is read at source index k as s[k + 1].            *)
(*                                                                         *)
(* Characters are one-character strings.  Every character of the pattern   *)
(* alphabet is one byte long in UTF-8, so the byte slice                   *)
(* &pattern[(i + 1)..j] of line 32 is the character slice chars[i+1..j).   *)
(***************************************************************************)
EXTENDS Naturals, Integers, Sequences, FiniteSets

\* ---------------------------------------------------------------- bounds
MaxPatLen == 3
MaxLongPatLen == 5
MaxStrLen == 4

\* The characters patterns are drawn from: two ordinary characters and
\* every character the compiler treats specially.
PatternChars == {"a", "b", ".", "*", "+", "?", "(", ")", "\\"}
\* The characters of the longer patterns: repetitions one after another,
\* groups side by side or inside one another, repetitions inside groups.
LongPatternChars == {"a", "*", "(", ")"}
\* The characters input strings are drawn from.
StringChars == {"a", "b"}

RECURSIVE SeqsUpTo(_, _)
SeqsUpTo(S, n) ==
    IF n = 0 THEN {<<>>}
    ELSE LET shorter == SeqsUpTo(S, n - 1)
         IN  shorter \cup {Append(s, c) : s \in {t \in shorter : Len(t) = n - 1}, c \in S}

Patterns ==
    SeqsUpTo(PatternChars, MaxPatLen) \cup SeqsUpTo(LongPatternChars, MaxLongPatLen)
Strings == SeqsUpTo(StringChars, MaxStrLen)

\* ------------------------------------------------------------ data model
\* enum Atom { Wildcard, Char(char), Expr(Regexp) }; every atom is a record
\* of the same shape, the fields a variant lacks hold a fixed filler.
Wildcard == [kind |-> "Wildcard", chr |-> "", expr |-> <<>>]
Char(c) == [kind |-> "Char", chr |-> c, expr |-> <<>>]
Expr(tokens) == [kind |-> "Expr", chr |-> "", expr |-> tokens]

\* type Token = (Atom, Quantifier); enum Quantifier { Exact, Star, Optional }
Token(atom, q) == [atom |-> atom, q |-> q]

\* enum Match { Full, Partial(usize) }
Full == [kind |-> "Full", n |-> 0]
Partial(n) == [kind |-> "Partial", n |-> n]
NoMatch == [kind |-> "None", n |-> 0]

\* Result<Regexp, RegexpParsingError>.  index is the number formatted into
\* the message "unclosed parenthesis at index {}"; at is not in the code:
\* it records where that parenthesis stands in the caller's pattern.
NoResult == [kind |-> "None", tokens |-> <<>>, index |-> 0, at |-> 0]
Ok(tokens) == [kind |-> "Ok", tokens |-> tokens, index |-> 0, at |-> 0]
Err(index, at) == [kind |-> "Err", tokens |-> <<>>, index |-> index, at |-> at]

VARIABLES
    pattern,   \* the argument of the caller's Regexp::new
    nstack,    \* the call stack of Regexp::new, innermost call last
    result,    \* what the caller's Regexp::new returned
    string,    \* the argument of Regexp::matches
    mstack,    \* the call stack of start_match, innermost call last
    ret,       \* what the start_match call that returned last returned
    outcome    \* of matches: "none", "running", "true", "false", or a panic

vars == <<pattern, nstack, result, string, mstack, ret, outcome>>

Top(stack) == stack[Len(stack)]
Pop(stack) == SubSeq(stack, 1, Len(stack) - 1)
SetTop(stack, f) == [stack EXCEPT ![Len(stack)] = f]
Last(s) == s[Len(s)]
Front(s) == SubSeq(s, 1, Len(s) - 1)

Init ==
    /\ pattern = <<>>
    /\ nstack = <<>>
    /\ result = NoResult
    /\ string = <<>>
    /\ mstack = <<>>
    /\ ret = NoMatch
    /\ outcome = "idle"

\* ------------------------------------------------------- Regexp::new
\* One call of Regexp::new: its locals chars, tokens, i, and j while the
\* '(' arm waits for the nested call.  base is not in the code: the offset
\* of this call's pattern in the caller's pattern.
NewFrame(chars, base) ==
    [chars |-> chars, tokens |-> <<>>, i |-> 0, j |-> 0, pc |-> "scan", base |-> base]

\* A slip in the guard below: any last token counts, whatever its quantifier.
IsLastTokenAny(tokens) == Len(tokens) > 0

\* matches!(tokens.last(), Some((_, Exact)))
IsLastTokenExact(tokens) == Len(tokens) > 0 /\ Last(tokens).q = "Exact"

\* The guard of the first arm: i != 0 && chars[i - 1] == '\\'
IsEscaped(chars, i) == i # 0 /\ chars[i] = "\\"

\* The for loop of the '(' arm: the j it stops at, scanning i..chars.len()
\* from the right, or -1 when it runs out.
ClosingCandidates(chars, i) ==
    {j \in i .. Len(chars) - 1 : chars[j + 1] = ")" /\ chars[j] # "\\"}
Max(S) == CHOOSE x \in S : \A y \in S : y <= x
FindClose(chars, i) ==
    IF ClosingCandidates(chars, i) = {} THEN -1 ELSE Max(ClosingCandidates(chars, i))

\* tokens.pop() on a possibly empty vector
PopToken(tokens) == IF Len(tokens) = 0 THEN tokens ELSE Front(tokens)

Scanning ==
    /\ nstack # <<>>
    /\ Top(nstack).pc = "scan"
    /\ Top(nstack).i < Len(Top(nstack).chars)

CurChar == Top(nstack).chars[Top(nstack).i + 1]

\* The end of an arm that falls through to `i += 1`.
Emit(tokens) ==
    /\ nstack' = SetTop(nstack, [Top(nstack) EXCEPT !.tokens = tokens, !.i = @ + 1])
    /\ UNCHANGED <<pattern, result, string, mstack, ret, outcome>>

\* The caller's Regexp::new(pattern).
NewCall ==
    /\ outcome = "idle"
    /\ nstack = <<>>
    /\ result.kind = "None"
    /\ \E p \in Patterns :
        /\ pattern' = p
        /\ nstack' = <<NewFrame(p, 0)>>
    /\ UNCHANGED <<result, string, mstack, ret, outcome>>

\* chr if i != 0 && chars[i - 1] == '\\'
ScanEscaped ==
    /\ Scanning
    /\ IsEscaped(Top(nstack).chars, Top(nstack).i)
    /\ Emit(Append(PopToken(Top(nstack).tokens), Token(Char(CurChar), "Exact")))

\* '.'
ScanDot ==
    /\ Scanning
    /\ ~IsEscaped(Top(nstack).chars, Top(nstack).i)
    /\ CurChar = "."
    /\ Emit(Append(Top(nstack).tokens, Token(Wildcard, "Exact")))

\* '(' when the for loop finds a ')': the recursive call on pattern[(i+1)..j]
ScanGroup ==
    /\ Scanning
    /\ ~IsEscaped(Top(nstack).chars, Top(nstack).i)
    /\ CurChar = "("
    /\ LET f == Top(nstack)
           j == FindClose(f.chars, f.i)
       IN  /\ j # -1
           /\ nstack' = Append(SetTop(nstack, [f EXCEPT !.j = j, !.pc = "group"]),
                               NewFrame(SubSeq(f.chars, f.i + 2, j), f.base + f.i + 1))
    /\ UNCHANGED <<pattern, result, string, mstack, ret, outcome>>

\* '(' when the for loop runs out: return Err(..); every enclosing call
\* passes the error on unchanged through `?`.
ScanUnclosed ==
    /\ Scanning
    /\ ~IsEscaped(Top(nstack).chars, Top(nstack).i)
    /\ CurChar = "("
    /\ FindClose(Top(nstack).chars, Top(nstack).i) = -1
    /\ result' = Err(Top(nstack).i, Top(nstack).base + Top(nstack).i)
    /\ nstack' = <<>>
    /\ outcome' = "failed"
    /\ UNCHANGED <<pattern, string, mstack, ret>>

\* '*' if is_last_token_exact
ScanStar ==
    /\ Scanning
    /\ ~IsEscaped(Top(nstack).chars, Top(nstack).i)
    /\ CurChar = "*"
    /\ IsLastTokenExact(Top(nstack).tokens)
    /\ Emit(Append(Front(Top(nstack).tokens), Token(Last(Top(nstack).tokens).atom, "Star")))

\* '+' if is_last_token_exact
ScanPlus ==
    /\ Scanning
    /\ ~IsEscaped(Top(nstack).chars, Top(nstack).i)
    /\ CurChar = "+"
    /\ IsLastTokenExact(Top(nstack).tokens)
    /\ Emit(Append(Top(nstack).tokens, Token(Last(Top(nstack).tokens).atom, "Star")))

\* '?' if is_last_token_exact
ScanQuestion ==
    /\ Scanning
    /\ ~IsEscaped(Top(nstack).chars, Top(nstack).i)
    /\ CurChar = "?"
    /\ IsLastTokenExact(Top(nstack).tokens)
    /\ Emit(Append(Front(Top(nstack).tokens), Token(Last(Top(nstack).tokens).atom, "Optional")))

\* chr => tokens.push((Char(chr), Exact)): every character no earlier arm took
ScanChar ==
    /\ Scanning
    /\ ~IsEscaped(Top(nstack).chars, Top(nstack).i)
    /\ CurChar \notin {".", "("}
    /\ CurChar \in {"*", "+", "?"} => ~IsLastTokenExact(Top(nstack).tokens)
    /\ Emit(Append(Top(nstack).tokens, Token(Char(CurChar), "Exact")))

\* Ok(Self { tokens }) of a nested call: the '(' arm pushes the group,
\* sets i = j + 1 and continues the outer loop.
NewReturnNested ==
    /\ Len(nstack) > 1
    /\ Top(nstack).pc = "scan"
    /\ Top(nstack).i >= Len(Top(nstack).chars)
    /\ LET caller == nstack[Len(nstack) - 1]
       IN  nstack' = SetTop(Pop(nstack),
                [caller EXCEPT !.tokens = Append(@, Token(Expr(Top(nstack).tokens), "Exact")),
                               !.i = caller.j + 1,
                               !.pc = "scan"])
    /\ UNCHANGED <<pattern, result, string, mstack, ret, outcome>>

\* Ok(Self { tokens }) of the caller's call.
NewReturn ==
    /\ Len(nstack) = 1
    /\ Top(nstack).pc = "scan"
    /\ Top(nstack).i >= Len(Top(nstack).chars)
    /\ result' = Ok(Top(nstack).tokens)
    /\ nstack' = <<>>
    /\ outcome' = "compiled"
    /\ UNCHANGED <<pattern, string, mstack, ret>>

\* ------------------------------------------------- Regexp::start_match
\* One call of start_match: self.tokens, chars, the locals i and consumed,
\* and j of the Star arm.  In the Star and Optional arms `value` is the
\* atom of tokens[i - 1] and `rest` is tokens[i..], i already incremented.
MatchFrame(tokens, chars) ==
    [tokens |-> tokens, chars |-> chars, i |-> 0, consumed |-> 0, j |-> 0, pc |-> "walk"]

\* chars[k..] and self.tokens[i..]
Suffix(s, k) == SubSeq(s, k + 1, Len(s))

\* value_match_len_at_index for Wildcard and Char(chr), the arms that make
\* no call: the n of the Match::Partial(n) it returns.
AtomMatchLen(chars, index, atom) ==
    IF atom.kind = "Wildcard" THEN 1
    ELSE IF chars[index + 1] = atom.chr THEN 1 ELSE 0

Walking ==
    /\ outcome = "running"
    /\ mstack # <<>>
    /\ Top(mstack).pc = "walk"

\* The token the walk stands at.
AtToken(q) ==
    /\ Walking
    /\ Top(mstack).i < Len(Top(mstack).tokens)
    /\ Top(mstack).tokens[Top(mstack).i + 1].q = q

CurAtom == Top(mstack).tokens[Top(mstack).i + 1].atom
\* `value` of the Star and Optional arms after their `i += 1`
Value == Top(mstack).tokens[Top(mstack).i].atom
Exhausted == Top(mstack).consumed = Len(Top(mstack).chars)
IsLastToken == Top(mstack).i = Len(Top(mstack).tokens) - 1

\* `return m`: the frame is popped; the outermost call returns to matches,
\* which compares the result with Match::Full.
Return(m) ==
    /\ ret' = m
    /\ mstack' = Pop(mstack)
    /\ outcome' = IF Len(mstack) > 1 THEN outcome
                  ELSE IF m = Full THEN "true" ELSE "false"
    /\ UNCHANGED <<pattern, nstack, result, string>>

\* The call goes on in the same frame.
Continue(f) ==
    /\ mstack' = SetTop(mstack, f)
    /\ ret' = NoMatch
    /\ UNCHANGED <<pattern, nstack, result, string, outcome>>

\* A call of start_match from frame f, which waits at f.pc.
Call(f, tokens, chars) ==
    /\ mstack' = Append(SetTop(mstack, f), MatchFrame(tokens, chars))
    /\ ret' = NoMatch
    /\ UNCHANGED <<pattern, nstack, result, string, outcome>>

Panic(what) ==
    /\ outcome' = what
    /\ mstack' = <<>>
    /\ ret' = NoMatch
    /\ UNCHANGED <<pattern, nstack, result, string>>

\* pub fn matches(&self, string: &str).  matches borrows the Regexp and
\* changes nothing in it, so a second call would start from this same
\* state: one call per behaviour covers them all.
MatchesCall ==
    /\ outcome = "compiled"
    /\ \E s \in Strings :
        /\ string' = s
        /\ mstack' = <<MatchFrame(result.tokens, s)>>
    /\ ret' = NoMatch
    /\ outcome' = "running"
    /\ UNCHANGED <<pattern, nstack, result>>

\* The match after the while loop.
WalkEnd ==
    /\ Walking
    /\ Top(mstack).i >= Len(Top(mstack).tokens)
    /\ Return(IF Exhausted THEN Full ELSE Partial(Top(mstack).consumed))

\* Exact arm: if consumed == chars.len() { return Match::Partial(consumed) }
ExactStop ==
    /\ AtToken("Exact")
    /\ Exhausted
    /\ Return(Partial(Top(mstack).consumed))

\* A slip in the Exact arm below: the test `just_consumed == 0` is left out.
ExactAdvanceNoZeroCheck(f, just_consumed) ==
    Continue([f EXCEPT !.i = @ + 1, !.consumed = @ + just_consumed, !.pc = "walk"])

\* What the Exact arm does with the Match::Partial(just_consumed) it got.
ExactAdvance(f, just_consumed) ==
    IF just_consumed = 0
    THEN Return(Partial(f.consumed))
    ELSE Continue([f EXCEPT !.i = @ + 1, !.consumed = @ + just_consumed, !.pc = "walk"])

\* Exact arm, value a Wildcard or a Char read inside chars.
ExactAtom ==
    /\ AtToken("Exact")
    /\ ~Exhausted
    /\ CurAtom.kind # "Expr"
    /\ CurAtom.kind = "Char" => Top(mstack).consumed < Len(Top(mstack).chars)
    /\ ExactAdvance(Top(mstack), AtomMatchLen(Top(mstack).chars, Top(mstack).consumed, CurAtom))

\* Exact arm, value an Expr: expr.start_match(chars), on the whole slice.
ExactGroupCall ==
    /\ AtToken("Exact")
    /\ ~Exhausted
    /\ CurAtom.kind = "Expr"
    /\ Call([Top(mstack) EXCEPT !.pc = "exact_value"], CurAtom.expr, Top(mstack).chars)

ExactGroupReturn ==
    /\ outcome = "running"
    /\ mstack # <<>>
    /\ Top(mstack).pc = "exact_value"
    /\ ret.kind = "Partial"
    /\ ExactAdvance(Top(mstack), ret.n)

\* Star arm with the input used up.
StarStop ==
    /\ AtToken("Star")
    /\ Exhausted
    /\ Return(IF IsLastToken THEN Full ELSE Partial(Top(mstack).consumed))

\* The position the Star loop starts from: let mut j = i, after i += 1.
StarStart(f) == f.i + 1

\* Star arm: i += 1; let rest = ..; let mut j = i;
StarEnter ==
    /\ AtToken("Star")
    /\ ~Exhausted
    /\ Continue([Top(mstack) EXCEPT !.i = @ + 1, !.j = StarStart(Top(mstack)), !.pc = "star_loop"])

AtPc(pc) ==
    /\ outcome = "running"
    /\ mstack # <<>>
    /\ Top(mstack).pc = pc

\* while j < chars.len() { if rest.start_match(&chars[j..]) == ..
StarRestCall ==
    /\ AtPc("star_loop")
    /\ Top(mstack).j < Len(Top(mstack).chars)
    /\ Call([Top(mstack) EXCEPT !.pc = "star_rest"],
            Suffix(Top(mstack).tokens, Top(mstack).i),
            Suffix(Top(mstack).chars, Top(mstack).j))

\* The while condition fails: the walk goes on at tokens[i].
StarLoopExit ==
    /\ AtPc("star_loop")
    /\ Top(mstack).j >= Len(Top(mstack).chars)
    /\ Continue([Top(mstack) EXCEPT !.pc = "walk"])

\* rest matched the whole of chars[j..]: return Match::Full
StarRestFull ==
    /\ AtPc("star_rest")
    /\ ret = Full
    /\ Return(Full)

\* A slip in the Star loop below: `j += 1` is left out.
StarRepeatNoAdvance(f, just_consumed) ==
    IF just_consumed = 0
    THEN Continue([f EXCEPT !.pc = "walk"])
    ELSE Continue([f EXCEPT !.consumed = @ + just_consumed, !.pc = "star_loop"])

\* What the Star loop does with the Match::Partial(just_consumed) it got:
\* break, or consumed += just_consumed and j += 1.
StarRepeat(f, just_consumed) ==
    IF just_consumed = 0
    THEN Continue([f EXCEPT !.pc = "walk"])
    ELSE Continue([f EXCEPT !.consumed = @ + just_consumed, !.j = @ + 1, !.pc = "star_loop"])

\* rest did not: one more repetition of a Wildcard or Char, read at j.
StarAtom ==
    /\ AtPc("star_rest")
    /\ ret # Full
    /\ Value.kind # "Expr"
    /\ StarRepeat(Top(mstack), AtomMatchLen(Top(mstack).chars, Top(mstack).j, Value))

\* rest did not: one more repetition of an Expr.
StarGroupCall ==
    /\ AtPc("star_rest")
    /\ ret # Full
    /\ Value.kind = "Expr"
    /\ Call([Top(mstack) EXCEPT !.pc = "star_value"], Value.expr, Top(mstack).chars)

StarGroupReturn ==
    /\ AtPc("star_value")
    /\ ret.kind = "Partial"
    /\ StarRepeat(Top(mstack), ret.n)

\* Optional arm with the input used up.
OptionalStop ==
    /\ AtToken("Optional")
    /\ Exhausted
    /\ Return(IF IsLastToken THEN Full ELSE Partial(Top(mstack).consumed))

\* Optional arm: i += 1; rest.start_match(&chars[consumed..])
OptionalRestCall ==
    /\ AtToken("Optional")
    /\ Top(mstack).consumed < Len(Top(mstack).chars)
    /\ Call([Top(mstack) EXCEPT !.i = @ + 1, !.pc = "optional_rest"],
            Suffix(Top(mstack).tokens, Top(mstack).i + 1),
            Suffix(Top(mstack).chars, Top(mstack).consumed))

OptionalRestFull ==
    /\ AtPc("optional_rest")
    /\ ret = Full
    /\ Return(Full)

\* rest did not match: consumed += just_consumed for a Wildcard or Char.
OptionalAtom ==
    /\ AtPc("optional_rest")
    /\ ret # Full
    /\ Value.kind # "Expr"
    /\ Continue([Top(mstack) EXCEPT
            !.consumed = @ + AtomMatchLen(Top(mstack).chars, Top(mstack).consumed, Value),
            !.pc = "walk"])

OptionalGroupCall ==
    /\ AtPc("optional_rest")
    /\ ret # Full
    /\ Value.kind = "Expr"
    /\ Call([Top(mstack) EXCEPT !.pc = "optional_value"], Value.expr, Top(mstack).chars)

OptionalGroupReturn ==
    /\ AtPc("optional_value")
    /\ ret.kind = "Partial"
    /\ Continue([Top(mstack) EXCEPT !.consumed = @ + ret.n, !.pc = "walk"])

\* Match::Full => unimplemented!() in the three arms: the nested tree of a
\* group matched the whole slice.
PanicUnimplemented ==
    /\ outcome = "running"
    /\ mstack # <<>>
    /\ Top(mstack).pc \in {"exact_value", "star_value", "optional_value"}
    /\ ret = Full
    /\ Panic("panic_unimplemented")

\* The reads and slices that leave chars: chars[index] of a Char in the
\* Exact arm and &chars[consumed..] of the Optional arm, both reached with
\* consumed > chars.len() (consumed == chars.len() returned before).
OutOfRange ==
    /\ Top(mstack).consumed > Len(Top(mstack).chars)
    /\ Top(mstack).i < Len(Top(mstack).tokens)
    /\ IF Top(mstack).tokens[Top(mstack).i + 1].q = "Exact"
       THEN CurAtom.kind = "Char"
       ELSE Top(mstack).tokens[Top(mstack).i + 1].q = "Optional"

PanicIndex ==
    /\ Walking
    /\ OutOfRange
    /\ Panic("panic_index")

Next ==
    \/ NewCall
    \/ ScanEscaped
    \/ ScanDot
    \/ ScanGroup
    \/ ScanUnclosed
    \/ ScanStar
    \/ ScanPlus
    \/ ScanQuestion
    \/ ScanChar
    \/ NewReturnNested
    \/ NewReturn
    \/ MatchesCall
    \/ WalkEnd
    \/ ExactStop
    \/ ExactAtom
    \/ ExactGroupCall
    \/ ExactGroupReturn
    \/ StarStop
    \/ StarEnter
    \/ StarRestCall
    \/ StarLoopExit
    \/ StarRestFull
    \/ StarAtom
    \/ StarGroupCall
    \/ StarGroupReturn
    \/ OptionalStop
    \/ OptionalRestCall
    \/ OptionalRestFull
    \/ OptionalAtom
    \/ OptionalGroupCall
    \/ OptionalGroupReturn
    \/ PanicUnimplemented
    \/ PanicIndex

Spec == Init /\ [][Next]_vars

\* The code is one sequential thread: it always takes its next step.
FairSpec == Spec /\ WF_vars(Next)

\* ===================================================== the properties
Finished == outcome \in {"true", "false", "panic_unimplemented", "panic_index"}
Returned == outcome \in {"true", "false"}

Range(s) == {s[k] : k \in 1 .. Len(s)}
\* The pattern has no parenthesis at all.
NoParens(p) == "(" \notin Range(p) /\ ")" \notin Range(p)
\* The character c stands at p[k] and no backslash stands before it.
UnescapedAt(p, k, c) == p[k] = c /\ (k = 1 \/ p[k - 1] # "\\")

\* Wildcard accepts any character, Char(c) accepts only c.
Accepts(atom, c) == atom.kind = "Wildcard" \/ (atom.kind = "Char" /\ atom.chr = c)

\* ----------------------------------------------------------------- C1
\* C1: matches always ends by returning true or false; no execution reaches
\* unimplemented!() or a read outside the input.
C1_NeverAborts == outcome \notin {"panic_unimplemented", "panic_index"}

\* ----------------------------------------------------------------- C2
\* s can be cut into consecutive pieces, one per token: one accepted
\* character for Exact, any number for Star, at most one for Optional.
RECURSIVE CanCut(_, _)
CanCut(tokens, s) ==
    IF tokens = <<>> THEN s = <<>>
    ELSE LET t == Head(tokens)
             one == s # <<>> /\ Accepts(t.atom, Head(s))
         IN  CASE t.q = "Exact" -> one /\ CanCut(Tail(tokens), Tail(s))
               [] t.q = "Star" -> CanCut(Tail(tokens), s) \/ (one /\ CanCut(tokens, Tail(s)))
               [] t.q = "Optional" ->
                    CanCut(Tail(tokens), s) \/ (one /\ CanCut(Tail(tokens), Tail(s)))

\* C2: for a pattern without parentheses, matches returns true exactly when
\* the input can be cut into one piece per token as the quantifiers allow.
C2_MatchesIffCut ==
    (Returned /\ NoParens(pattern)) =>
        ((outcome = "true") <=> CanCut(result.tokens, string))

\* ----------------------------------------------------------------- C3
\* How deep groups nest in a token sequence.
RECURSIVE Depth(_)
Depth(tokens) ==
    LET groups == {k \in 1 .. Len(tokens) : tokens[k].atom.kind = "Expr"}
    IN  IF groups = {} THEN 0
        ELSE 1 + Max({Depth(tokens[k].atom.expr) : k \in groups})

\* The work left in one call, as a number no step of the call may raise:
\* the tokens from i on weigh most, then the input from j on in the Star
\* loop, then the place inside the arm.
StarLeft(f) == IF f.j < Len(f.chars) THEN Len(f.chars) - f.j ELSE 0
FrameBase(f) == 3 * Len(f.chars) + 6
FrameMeasure(f) ==
    CASE f.pc = "walk" -> (Len(f.tokens) - f.i) * FrameBase(f) + FrameBase(f) - 1
      [] f.pc = "exact_value" -> (Len(f.tokens) - f.i) * FrameBase(f) + FrameBase(f) - 2
      [] f.pc = "optional_rest" -> (Len(f.tokens) - f.i + 1) * FrameBase(f) + FrameBase(f) - 2
      [] f.pc = "optional_value" -> (Len(f.tokens) - f.i + 1) * FrameBase(f) + FrameBase(f) - 3
      [] f.pc = "star_loop" -> (Len(f.tokens) - f.i + 1) * FrameBase(f) + 3 * StarLeft(f) + 2
      [] f.pc = "star_rest" -> (Len(f.tokens) - f.i + 1) * FrameBase(f) + 3 * StarLeft(f) + 1
      [] f.pc = "star_value" -> (Len(f.tokens) - f.i + 1) * FrameBase(f) + 3 * StarLeft(f)

\* Frame f becomes g: the same call, i within the tokens, less work left;
\* an iteration of the Star loop moves j up by one and not past the input.
FrameProgress(f, g) ==
    /\ g.tokens = f.tokens
    /\ g.chars = f.chars
    /\ g.i <= Len(g.tokens)
    /\ FrameMeasure(g) < FrameMeasure(f)
    /\ (f.pc \in {"star_rest", "star_value"} /\ g.pc = "star_loop") =>
            (g.j = f.j + 1 /\ g.j <= Len(g.chars))

\* A call on `rest` gets fewer tokens, a call into a group a shallower tree.
CallProgress(caller, callee) ==
    /\ caller.pc \in {"star_rest", "optional_rest"} =>
            Len(callee.tokens) < Len(caller.tokens)
    /\ caller.pc \in {"exact_value", "star_value", "optional_value"} =>
            Depth(callee.tokens) < Depth(caller.tokens)

\* A step returns (or panics), goes on in the innermost call, or calls.
StepProgress ==
    \/ Len(mstack') < Len(mstack)
    \/ /\ Len(mstack') = Len(mstack)
       /\ Pop(mstack') = Pop(mstack)
       /\ FrameProgress(Top(mstack), Top(mstack'))
    \/ /\ Len(mstack') = Len(mstack) + 1
       /\ Pop(Pop(mstack')) = Pop(mstack)
       /\ FrameProgress(Top(mstack), mstack'[Len(mstack)])
       /\ CallProgress(mstack'[Len(mstack)], Top(mstack'))

\* C3: every call of matches stops after finitely many steps.  Each step of
\* a running match returns, or strictly lowers the bounded work left in the
\* innermost call: i moves towards the last token, an iteration of the Star
\* loop moves j up by one within the input.  A call on `rest` gets a
\* strictly shorter token sequence and a call into a group a strictly
\* shallower tree, so calls cannot nest for ever.
C3_Terminates == [][(outcome = "running") => (mstack # <<>> /\ StepProgress)]_vars

\* A Star loop inside a group has gone round at least once.
C3_Witness ==
    /\ outcome = "running"
    /\ Len(mstack) >= 2
    /\ Top(mstack).pc = "star_loop"
    /\ Top(mstack).j > Top(mstack).i
    /\ mstack[1].pc = "exact_value"

\* The same as a liveness property, for FairSpec: a running match ends.
C3_Stops == (outcome = "running") ~> Finished

\* ----------------------------------------------------------------- C4
AllExactAtoms(tokens) ==
    \A k \in 1 .. Len(tokens) : tokens[k].q = "Exact" /\ tokens[k].atom.kind # "Expr"
AcceptedOneByOne(tokens, s) ==
    /\ Len(s) = Len(tokens)
    /\ \A k \in 1 .. Len(tokens) : Accepts(tokens[k].atom, s[k])

\* C4: a pattern whose tokens are all Exact with Char or Wildcard atoms
\* matches exactly the strings that have one character per token, each
\* accepted by the token at its place (so the empty pattern matches the
\* empty string only); matching it always returns.
C4_ExactLiterals ==
    (Finished /\ AllExactAtoms(result.tokens)) =>
        /\ Returned
        /\ (outcome = "true") <=> AcceptedOneByOne(result.tokens, string)

\* An escaped character and a wildcard have matched a two-character string.
C4_Witness ==
    /\ outcome = "true"
    /\ AllExactAtoms(result.tokens)
    /\ Len(result.tokens) = 2
    /\ \E k \in 1 .. 2 : result.tokens[k].atom.kind = "Wildcard"
    /\ "\\" \in Range(pattern)

\* ----------------------------------------------------------------- C5
EveryOpenHasClose(p) ==
    \A k \in 1 .. Len(p) :
        UnescapedAt(p, k, "(") => \E m \in k + 1 .. Len(p) : UnescapedAt(p, m, ")")

\* C5: Regexp::new fails only when some '(' not preceded by a backslash has
\* no ')' not preceded by a backslash after it; every other pattern compiles.
C5_FailsOnlyUnclosed == (result.kind = "Err") => ~EveryOpenHasClose(pattern)

\* ----------------------------------------------------------------- C6
\* C6: the index in the error message is the place, in the caller's
\* pattern, of the '(' no closing ')' was found for, also when a nested
\* call found it.
C6_IndexInCallerPattern == (result.kind = "Err") => (result.index = result.at)

\* ----------------------------------------------------------------- C7
\* What a quantifier character does to tokens whose last token is Exact.
Quantified(tokens, c) ==
    CASE c = "*" -> Append(Front(tokens), Token(Last(tokens).atom, "Star"))
      [] c = "?" -> Append(Front(tokens), Token(Last(tokens).atom, "Optional"))
      [] c = "+" -> Append(tokens, Token(Last(tokens).atom, "Star"))
QuantifierStep ==
    (Scanning /\ ~IsEscaped(Top(nstack).chars, Top(nstack).i) /\ CurChar \in {"*", "+", "?"}) =>
        /\ result' = result
        /\ Len(nstack') = Len(nstack)
        /\ Top(nstack').i = Top(nstack).i + 1
        /\ Top(nstack').tokens =
              IF Top(nstack).tokens # <<>> /\ Last(Top(nstack).tokens).q = "Exact"
              THEN Quantified(Top(nstack).tokens, CurChar)
              ELSE Append(Top(nstack).tokens, Token(Char(CurChar), "Exact"))
\* A step of one call changes the quantifier of its last token only, and
\* only if that token is Exact.
NoRequantifying ==
    (nstack # <<>> /\ Len(nstack') = Len(nstack)) =>
        \A k \in 1 .. Len(Top(nstack).tokens) :
            (k <= Len(Top(nstack').tokens) /\ Top(nstack').tokens[k].q # Top(nstack).tokens[k].q)
                => (Top(nstack).tokens[k].q = "Exact" /\ k = Len(Top(nstack).tokens))

\* C7: an unescaped '*', '+' or '?' is a quantifier exactly when the last
\* token is Exact: '*' and '?' change that token's quantifier only, '+'
\* appends the atom again with Star.  Anywhere else the character becomes
\* (Char(c), Exact) and compilation goes on.  No step changes the quantifier
\* of a token that is not Exact, so none is changed twice.
C7_Quantifiers == [][QuantifierStep /\ NoRequantifying]_vars

\* a+ followed by a quantifier character, which became a literal.
C7_Witness ==
    /\ result.kind = "Ok"
    /\ "\\" \notin Range(pattern)
    /\ Len(result.tokens) = 3
    /\ result.tokens[1].q = "Exact"
    /\ result.tokens[2] = Token(result.tokens[1].atom, "Star")
    /\ result.tokens[3] \in {Token(Char(c), "Exact") : c \in {"*", "+", "?"}}

\* ----------------------------------------------------------------- C8
\* Every token before the Star of frame f is Exact with a Char or Wildcard
\* atom, so each has matched exactly one character.
OneCharEachBefore(f) ==
    \A k \in 1 .. f.i - 1 : f.tokens[k].q = "Exact" /\ f.tokens[k].atom.kind # "Expr"

\* C8: at a Star token reached with input remaining, after tokens that each
\* matched exactly one character, the first trial of the remaining tokens
\* (j still at its starting value i) is made at input position `consumed`.
C8_FirstTrialAtConsumed ==
    \A k \in 1 .. Len(mstack) :
        (mstack[k].pc = "star_rest" /\ mstack[k].j = mstack[k].i /\ OneCharEachBefore(mstack[k]))
            => mstack[k].j = mstack[k].consumed

\* ----------------------------------------------------------------- C9
OrdinaryChars == {"a", "b"}
\* The pattern is (q)r, q and r of ordinary characters, q not empty.
IsGroupThenLiterals(p) ==
    /\ Len(p) >= 3
    /\ p[1] = "("
    /\ \E n \in 3 .. Len(p) :
        /\ p[n] = ")"
        /\ \A k \in 2 .. Len(p) : k # n => p[k] \in OrdinaryChars
\* The characters of q followed by those of r.
Literals(p) == SelectSeq(p, LAMBDA c : c \in OrdinaryChars)

\* C9: a pattern (q)r of ordinary characters, q not empty, matches exactly
\* the string made of the characters of q followed by those of r.
C9_GroupFirst ==
    (Finished /\ IsGroupThenLiterals(pattern)) =>
        ((outcome = "true") <=> (string = Literals(pattern)))

\* ---------------------------------------------------------------- C10
\* C10: for a pattern without groups, in every call of start_match
\* consumed never exceeds the length of the input slice of that call.
C10_ConsumedWithinSlice ==
    NoParens(pattern) =>
        \A k \in 1 .. Len(mstack) : mstack[k].consumed <= Len(mstack[k].chars)
====
